---- MODULE Spec2Model ----
(***************************************************************************)
(* The file explorer of manza: lazy expansion with a children cache, the   *)
(* click timer that tells single from double clicks, and drag-and-drop     *)
(* moves (FileExplorer.tsx), composed with the handlers AppLayout.tsx      *)
(* passes to it, over a small directory tree served by the backend.        *)
(*                                                                         *)
(* React specifics that the model keeps: a handler reads the state of the  *)
(* render it was created in.  A handler that awaits, or that runs from a   *)
(* timer, therefore carries a snapshot of the state (snapExp, snapCache,   *)
(* ...) taken when the event was dispatched, and a setState call with a    *)
(* value computed from the snapshot overwrites the state.                  *)
(***************************************************************************)
EXTENDS Integers, Sequences, FiniteSets, TLC

(***************************************************************************)
(* Bounds                                                                  *)
(***************************************************************************)
\* asynchronous handler invocations that may be suspended at the same time,
\* in the specification of expansion and in the specification of clicks
MaxInflight == 2

MaxClickInflight == 1

\* asynchronous handler invocations suspended at the same time, and rename calls
\* issued, in the specification of drag and drop
MaxDragInflight == 2

MaxMoves == 1

\* asynchronous handler invocations suspended at the same time, in the
\* specification of clicks and right clicks
MaxMenuInflight == 1

\* asynchronous handler invocations suspended at the same time, and entries of
\* the navigation history, in the specification of navigation
MaxNavInflight == 2

MaxHistory == 4

\* asynchronous handler invocations suspended at the same time, in the
\* specification of external changes
MaxWatchInflight == 2

\* asynchronous handler invocations suspended at the same time, in the
\* specification of the create, rename and delete dialogs
MaxCrudInflight == 1

\* entries the disk has room for
MaxEntries == 6

\* asynchronous handler invocations suspended at the same time, edits typed into
\* a text and rewrites of a file by another program, in the specification of
\* editing
MaxEditInflight == 2

MaxTyped == 1

MaxRewrites == 1

\* create, rename and delete calls issued to the backend
MaxCrudCalls == 2

(***************************************************************************)
(* Paths and entries.  A path is the sequence of its segments, so that     *)
(* "/r/d1/x" is <<"r", "d1", "x">>.                                        *)
(***************************************************************************)
Root == <<"r">>

\* path.substring(0, path.lastIndexOf('/'))
parentPath(p) == SubSeq(p, 1, Len(p) - 1)

\* path.substring(path.lastIndexOf('/') + 1)
baseName(p) == p[Len(p)]

\* `${dir}/${name}`
joinPath(dir, name) == Append(dir, name)

IsPrefix(a, b) == Len(a) <= Len(b) /\ SubSeq(b, 1, Len(a)) = a

\* b lies strictly below a
IsDescendant(b, a) == IsPrefix(a, b) /\ a # b

FileItem(p, d) == [path |-> p, isDirectory |-> d]

NoItem == FileItem(<<>>, FALSE)

\* the tree on disk when the application starts
InitialFs ==
    { FileItem(<<"r", "d1">>, TRUE),
      FileItem(<<"r", "d2">>, TRUE),
      FileItem(<<"r", "x">>, FALSE),
      FileItem(<<"r", "d1", "s">>, TRUE),
      FileItem(<<"r", "d1", "x">>, FALSE) }

NoPath == <<>>

NoTimer == [file |-> NoItem, snapExp |-> {}, snapCache |-> <<>>, snapFiles |-> {}]

NoDbl == [file |-> NoItem, single |-> 0, nav |-> 0]
\* no click gesture is being followed
NoClick == [file |-> NoItem, fired |-> <<>>, menu |-> FALSE,
            prev |-> NoItem, prevFired |-> <<>>]
NoError == "null"
ErrLoadDir == "Error loading directory"
ErrLoadFile == "Error loading file"
ErrRefresh == "Error refreshing directory"

\* dropTarget: null, or '__root__', or the path of a folder
NoTarget == <<>>
RootTarget == <<"__root__">>

\* where the pointer is during a drag: outside the explorer, or over the
\* background of the file list, or over a shown entry
Outside == NoItem
RootArea == FileItem(RootTarget, TRUE)

NoRelease == [target |-> NoTarget, moves |-> -1]

EmptyCache == [p \in {} |-> {}]

\* activeDialog: null, or 'create-file', 'create-folder', 'rename', 'delete'
NoDialog == "null"

\* a text: the file it was read from, how often another program had rewritten
\* that file, and how often the text was typed into in the editor since
Text(origin, rev) == [origin |-> origin, rev |-> rev, typed |-> 0]

\* useState<string>('')
NoText == Text(NoPath, 0)

ErrSave == "Error saving file"

\* nothing has been written yet
NoWrite == [path |-> NoPath, text |-> NoText]

\* nothing listed, nothing shown
NoLists == [files |-> <<>>, children |-> <<>>, expanded |-> FALSE]

VARIABLES
    fs,                    \* backend: the entries that exist on disk
    currentDirectoryPath,  \* AppLayout state
    files,                 \* AppLayout state: listing of the current directory
    error,                 \* AppLayout state: the displayed error message
    selectedFilePath,      \* AppLayout state
    navigationHistory,     \* AppLayout state
    navigationIndex,       \* AppLayout state (0-based, -1 when empty)
    expandedFiles,         \* FileExplorer state
    childrenCache,         \* FileExplorer state: path -> fetched children
    clickTimeout,          \* FileExplorer clickTimeoutRef: NoTimer or the pending timer
    draggedItem,           \* FileExplorer state: NoItem or the dragged entry
    dropTarget,            \* FileExplorer state
    inflight,              \* suspended asynchronous handler invocations
    dragPhase,             \* environment: "idle", "dragging" or "dropped"
    hover,                 \* environment: what the last dragover was dispatched on
    moveLog,               \* history: the rename calls issued to the backend
    released,              \* history: the drop target when the pointer was released
                           \* and the rename calls the gesture has issued since
    owed,                  \* history: expanded folders changed by a successful move
                           \* and not re-fetched since
    dbl,                   \* history: the last double-click gesture and what it fired
    contextMenu,           \* FileExplorer state: NoItem or the entry the menu is open on
    clicked,               \* history: the last click and the single-click actions
                           \* fired since, unless it became a double click
                           \* (prev: the entry whose pending timer it cleared)
    activeDialog,          \* FileExplorer state: the open dialog, or NoDialog
    targetFile,            \* FileExplorer state: the entry a rename or delete is for
    targetFolder,          \* FileExplorer state: the folder a create is for
    listed,                \* the lists a render is given, in the backend's order:
                           \* the files prop and the cached children of a folder
    displayed,             \* the lists that render shows
    content,               \* AppLayout state: the text of the open file
    doc,                   \* MarkdownEditor: the document of the mounted editor view
    autoSaveTimer,         \* MarkdownEditor autoSaveTimerRef: is a timer pending
    disk,                  \* backend: the text of each file on disk
    saved,                 \* history: the last write save_file_contents has made
    burst,                 \* history: edits typed and not followed by an auto-save yet
    isEditorCollapsed,     \* AppLayout state
    isPreviewCollapsed,    \* AppLayout state
    leftWidth,             \* ResizablePanes state: width of the left pane in percent
    isDragging             \* ResizablePanes isDraggingRef

backendVars == <<fs>>
appVars == <<currentDirectoryPath, files, error, selectedFilePath,
             navigationHistory, navigationIndex>>
navVars == <<currentDirectoryPath, files, navigationHistory, navigationIndex>>
explorerVars == <<expandedFiles, childrenCache>>
menuVars == <<contextMenu, clicked>>
dragVars == <<draggedItem, dropTarget, dragPhase, hover, moveLog, released, owed>>
vars == <<fs, currentDirectoryPath, files, error, selectedFilePath,
          navigationHistory, navigationIndex, expandedFiles, childrenCache,
          clickTimeout, inflight, dbl, draggedItem, dropTarget,
          dragPhase, hover, moveLog, released, owed, contextMenu, clicked,
          activeDialog, targetFile, targetFolder, listed, displayed,
          content, doc, autoSaveTimer, disk, saved, burst,
          isEditorCollapsed, isPreviewCollapsed, leftWidth, isDragging>>

dialogVars == <<activeDialog, targetFile, targetFolder>>
orderVars == <<listed, displayed>>
editorVars == <<content, doc, autoSaveTimer, disk, saved, burst>>
paneVars == <<isEditorCollapsed, isPreviewCollapsed, leftWidth, isDragging>>
\* the state of the dialogs, of the editor and of the panes, which the handlers
\* of expansion, clicks, navigation and drag and drop never write
otherVars == <<dialogVars, orderVars, editorVars, paneVars>>

(***************************************************************************)
(* The backend (Directory Service)                                         *)
(***************************************************************************)
DirExists(p) == p = Root \/ FileItem(p, TRUE) \in fs

\* get_directory_contents succeeds; up says whether the backend answers at all
\* (FALSE: an IOError such as permission denied)
CanList(p, up) == up /\ DirExists(p)

\* get_directory_contents: the immediate entries of p
Listing(p) == {e \in fs : Len(e.path) = Len(p) + 1 /\ parentPath(e.path) = p}

Exists(p) == \E e \in fs : e.path = p

\* rename_file_or_directory succeeds: the source exists, the destination's folder
\* exists and the destination is not inside the source
CanMove(old, new, up) ==
    up /\ Exists(old) /\ DirExists(parentPath(new)) /\ ~IsDescendant(new, old)

RenamePath(p, old, new) == new \o SubSeq(p, Len(old) + 1, Len(p))

\* the disk after rename_file_or_directory(old, new): the subtree at old is at
\* new, replacing what was there
Moved(old, new) ==
    IF old = new
    THEN fs
    ELSE {e \in fs : ~IsPrefix(old, e.path) /\ ~IsPrefix(new, e.path)}
         \cup {FileItem(RenamePath(e.path, old, new), e.isDirectory) :
                  e \in {f \in fs : IsPrefix(old, f.path)}}

\* read_file_contents succeeds
CanRead(p, up) == up /\ FileItem(p, FALSE) \in fs

\* create_new_file and create_new_directory succeed: the folder exists, the
\* name is free and the disk is not full
CanCreate(p, up) ==
    up /\ DirExists(parentPath(p)) /\ ~Exists(p) /\ Cardinality(fs) < MaxEntries

\* delete_file_at_path and delete_directory_at_path succeed
CanDelete(item, up) == up /\ item \in fs

\* the disk after a delete: a directory goes with everything below it
Deleted(item) == {e \in fs : ~IsPrefix(item.path, e.path)}

(***************************************************************************)
(* Helpers                                                                 *)
(***************************************************************************)
RemoveAt(s, i) == [j \in 1..(Len(s) - 1) |-> IF j < i THEN s[j] ELSE s[j + 1]]

\* new Map(cache).set(p, v)
MapSet(cache, p, v) ==
    [q \in (DOMAIN cache) \cup {p} |-> IF q = p THEN v ELSE cache[q]]

\* a suspended invocation: the handler (kind), its argument (path) and the state
\* of the render it closes over; seen is history, the directories whose expand
\* fetch completed while this one was suspended, and so is collapsed, whether
\* the directory was collapsed while its expand fetch was suspended; result is
\* the answer the backend has prepared, if it has; stale is history, whether a
\* listing requested later has been delivered already
Op(kind, path, snapExp, snapCache, snapIdx) ==
    [kind |-> kind, path |-> path, snapExp |-> snapExp, snapCache |-> snapCache,
     snapIdx |-> snapIdx, seen |-> {}, item |-> NoItem, pc |-> "await",
     cdp |-> NoPath, collapsed |-> FALSE, result |-> {}, stale |-> FALSE]

\* a suspended drop or drag-end handler: the dragged item, the folder it is moved
\* to, the state of the handler's render (cdp is its currentDirectoryPath, the
\* rootPath prop) and the await it is suspended at
MoveOp(kind, item, target, snapExp, snapCache, cdp) ==
    [kind |-> kind, path |-> target, snapExp |-> snapExp, snapCache |-> snapCache,
     snapIdx |-> 0, seen |-> {}, item |-> item, pc |-> "await", cdp |-> cdp,
     collapsed |-> FALSE, result |-> {}, stale |-> FALSE]

ExpandInflight(d) == {i \in DOMAIN inflight :
                        inflight[i].kind = "expand" /\ inflight[i].path = d}

\* the entries the explorer shows: every item of files, and below each expanded
\* item its cached children
RECURSIVE renderFileItem(_)
renderFileItem(file) ==
    {file} \cup
    IF file.path \in expandedFiles /\ file.path \in DOMAIN childrenCache
    THEN UNION {renderFileItem(c) : c \in childrenCache[file.path]}
    ELSE {}

Rendered == UNION {renderFileItem(f) : f \in files}

(***************************************************************************)
(* Initial state: the application has mounted and loaded its last          *)
(* directory, Root.                                                        *)
(***************************************************************************)
InitWith(E) ==
    /\ fs = InitialFs
    /\ currentDirectoryPath = Root
    /\ files = {e \in InitialFs : Len(e.path) = Len(Root) + 1 /\ parentPath(e.path) = Root}
    /\ error = NoError
    /\ selectedFilePath = NoPath
    /\ navigationHistory = <<Root>>
    /\ navigationIndex = 0
    /\ expandedFiles = E
    /\ childrenCache = [d \in E |->
            {e \in InitialFs : Len(e.path) = Len(d) + 1 /\ parentPath(e.path) = d}]
    /\ clickTimeout = NoTimer
    /\ inflight = <<>>
    /\ dbl = NoDbl
    /\ contextMenu = NoItem
    /\ clicked = NoClick
    /\ draggedItem = NoItem
    /\ dropTarget = NoTarget
    /\ dragPhase = "idle"
    /\ hover = Outside
    /\ moveLog = <<>>
    /\ released = NoRelease
    /\ owed = {}
    /\ activeDialog = NoDialog
    /\ targetFile = NoItem
    /\ targetFolder = NoItem
    /\ displayed = NoLists
    /\ content = NoText
    /\ doc = NoText
    /\ autoSaveTimer = FALSE
    /\ disk = [p \in {e.path : e \in {f \in InitialFs : ~f.isDirectory}} |-> Text(p, 0)]
    /\ saved = NoWrite
    /\ burst = FALSE
    /\ isEditorCollapsed = FALSE
    /\ isPreviewCollapsed = FALSE
    /\ leftWidth = 50
    /\ isDragging = FALSE

Init == InitWith({}) /\ listed = NoLists

\* the explorer after the user has expanded some of the folders of Root, one
\* after the other
InitDrag ==
    /\ \E E \in SUBSET {<<"r", "d1">>, <<"r", "d2">>} : InitWith(E)
    /\ listed = NoLists

(***************************************************************************)
(* Expansion (FileExplorer.handleFolderClick, AppLayout.handleFolderExpand)*)
(***************************************************************************)

\* handleFolderExpand with its catch block rethrowing instead of returning []
handleFolderExpandRethrows(ok, listing) ==
    IF ok THEN [children |-> listing, error |-> NoError, rejects |-> FALSE]
          ELSE [children |-> {}, error |-> ErrLoadDir, rejects |-> TRUE]

\* AppLayout.handleFolderExpand once the backend has answered: the children it
\* resolves to, the error it displays, and whether the promise rejects
handleFolderExpandResult(ok, listing) ==
    IF ok THEN [children |-> listing, error |-> NoError, rejects |-> FALSE]
          ELSE [children |-> {}, error |-> ErrLoadDir, rejects |-> FALSE]

\* handleFolderClick up to its await, reading the state snapshot (E, C)
handleFolderClick(folder, E, C) ==
    IF ~folder.isDirectory
    THEN UNCHANGED <<explorerVars, inflight, error>>
    ELSE IF folder.path \in E
    THEN \* collapse, the cache is kept
         /\ expandedFiles' = E \ {folder.path}
         /\ inflight' = [j \in DOMAIN inflight |->
                IF inflight[j].kind = "expand" /\ inflight[j].path = folder.path
                   /\ folder.path \in expandedFiles
                THEN [inflight[j] EXCEPT !.collapsed = TRUE]
                ELSE inflight[j]]
         /\ UNCHANGED <<childrenCache, error>>
    ELSE IF folder.path \in DOMAIN C
    THEN \* expand from the cache
         /\ expandedFiles' = E \cup {folder.path}
         /\ UNCHANGED <<childrenCache, inflight, error>>
    ELSE \* onFolderExpand: handleFolderExpand clears the error and calls the backend
         /\ error' = NoError
         /\ inflight' = Append(inflight, Op("expand", folder.path, E, C, 0))
         /\ UNCHANGED explorerVars

\* handleFolderClick after its await: the backend has answered the listing
ExpandComplete(i, up) ==
    /\ i \in DOMAIN inflight
    /\ inflight[i].kind = "expand"
    /\ LET op == inflight[i]
           res == handleFolderExpandResult(CanList(op.path, up), Listing(op.path))
       IN /\ inflight' = RemoveAt(
                [j \in DOMAIN inflight |->
                    IF inflight[j].kind = "expand" /\ inflight[j].path # op.path
                       /\ ~res.rejects
                    THEN [inflight[j] EXCEPT !.seen = @ \cup {op.path}]
                    ELSE inflight[j]], i)
          /\ IF res.error # NoError THEN error' = res.error ELSE UNCHANGED error
          /\ IF res.rejects
             THEN \* catch: console.error, return
                  UNCHANGED explorerVars
             ELSE /\ childrenCache' = MapSet(op.snapCache, op.path, res.children)
                  /\ expandedFiles' = op.snapExp \cup {op.path}
    /\ UNCHANGED <<backendVars, navVars, selectedFilePath, clickTimeout, dbl, menuVars, dragVars>>

(***************************************************************************)
(* File selection (FileExplorer.handleFileClick, AppLayout.handleFileSelect)*)
(***************************************************************************)
\* handleFileSelect up to its await, reading the files of its render
handleFileSelect(filePath, F) ==
    IF \E f \in F : f.path = filePath /\ f.isDirectory
    THEN UNCHANGED <<inflight, error>>
    ELSE /\ error' = NoError
         /\ inflight' = Append(inflight, Op("select", filePath, {}, EmptyCache, 0))

\* handleFileClick that does not call onFileSelect
handleFileClickIgnored(file, F) ==
    UNCHANGED <<inflight, error>>

handleFileClick(file, F) ==
    IF ~file.isDirectory
    THEN handleFileSelect(file.path, F)
    ELSE UNCHANGED <<inflight, error>>

SelectComplete(i, up) ==
    /\ i \in DOMAIN inflight
    /\ inflight[i].kind = "select"
    /\ inflight' = RemoveAt(inflight, i)
    /\ IF CanRead(inflight[i].path, up)
       THEN /\ selectedFilePath' = inflight[i].path
            /\ UNCHANGED error
       ELSE /\ error' = ErrLoadFile
            /\ UNCHANGED selectedFilePath
    /\ UNCHANGED <<backendVars, navVars, explorerVars, clickTimeout, dbl, menuVars, dragVars>>

(***************************************************************************)
(* Navigation into a directory (AppLayout.handleNavigateInto)              *)
(***************************************************************************)
\* prev.slice(0, idx + 1)
Slice(prev, idx) ==
    SubSeq(prev, 1, IF idx + 1 > Len(prev) THEN Len(prev) ELSE idx + 1)

\* addToNavigationHistory created in a render whose navigationIndex was idx
addToNavigationHistory(path, idx) ==
    LET newHistory == Slice(navigationHistory, idx)
    IN IF newHistory = <<>> \/ newHistory[Len(newHistory)] # path
       THEN /\ navigationHistory' = Append(newHistory, path)
            /\ navigationIndex' = Len(newHistory)
       ELSE UNCHANGED <<navigationHistory, navigationIndex>>

\* handleNavigateInto up to its await
handleNavigateInto(folderPath) ==
    /\ error' = NoError
    /\ currentDirectoryPath' = folderPath
    /\ inflight' = Append(inflight,
                          Op("navigate", folderPath, {}, EmptyCache, navigationIndex))
    /\ UNCHANGED <<files, navigationHistory, navigationIndex>>

NavigateComplete(i, up) ==
    /\ i \in DOMAIN inflight
    /\ inflight[i].kind = "navigate"
    /\ inflight' = RemoveAt(inflight, i)
    /\ IF CanList(inflight[i].path, up)
       THEN /\ files' = Listing(inflight[i].path)
            /\ addToNavigationHistory(inflight[i].path, inflight[i].snapIdx)
            /\ UNCHANGED error
       ELSE /\ error' = ErrLoadDir
            /\ UNCHANGED <<files, navigationHistory, navigationIndex>>
    /\ UNCHANGED <<backendVars, currentDirectoryPath, selectedFilePath, explorerVars,
                   clickTimeout, dbl, menuVars, dragVars>>

\* a double click on a folder of the listing while no click timer is pending,
\* taken as one step: FileExplorer calls onNavigateInto
NavigateInto(file) ==
    /\ file \in files
    /\ file.isDirectory
    /\ clickTimeout = NoTimer
    /\ handleNavigateInto(file.path)
    /\ UNCHANGED <<backendVars, selectedFilePath, explorerVars, clickTimeout, dbl,
                   menuVars, dragVars>>

(***************************************************************************)
(* Back and forward (AppLayout.handleNavigateBack, handleNavigateForward)  *)
(***************************************************************************)
\* navigationHistory[idx] of the code, whose indices start at 0
HistoryAt(idx) == navigationHistory[idx + 1]

\* handleNavigateBack up to its await
handleNavigateBack ==
    /\ IF navigationIndex > 0
       THEN /\ currentDirectoryPath' = HistoryAt(navigationIndex - 1)
            /\ inflight' = Append(inflight,
                     Op("back", HistoryAt(navigationIndex - 1), {}, EmptyCache,
                        navigationIndex - 1))
       ELSE UNCHANGED <<currentDirectoryPath, inflight>>
    /\ UNCHANGED <<backendVars, files, error, selectedFilePath, navigationHistory,
                   navigationIndex, explorerVars, clickTimeout, dbl, menuVars,
                   dragVars>>

\* handleNavigateForward up to its await
handleNavigateForward ==
    /\ IF navigationIndex < Len(navigationHistory) - 1
       THEN /\ currentDirectoryPath' = HistoryAt(navigationIndex + 1)
            /\ inflight' = Append(inflight,
                     Op("forward", HistoryAt(navigationIndex + 1), {}, EmptyCache,
                        navigationIndex + 1))
       ELSE UNCHANGED <<currentDirectoryPath, inflight>>
    /\ UNCHANGED <<backendVars, files, error, selectedFilePath, navigationHistory,
                   navigationIndex, explorerVars, clickTimeout, dbl, menuVars,
                   dragVars>>

\* handleNavigateBack and handleNavigateForward after their await: snapIdx is
\* the previousIndex or nextIndex computed before it
HistoryComplete(i, up) ==
    /\ i \in DOMAIN inflight
    /\ inflight[i].kind \in {"back", "forward"}
    /\ inflight' = RemoveAt(inflight, i)
    /\ IF CanList(inflight[i].path, up)
       THEN /\ files' = Listing(inflight[i].path)
            /\ navigationIndex' = inflight[i].snapIdx
            /\ UNCHANGED error
       ELSE /\ error' = ErrLoadDir
            /\ UNCHANGED <<files, navigationIndex>>
    /\ UNCHANGED <<backendVars, currentDirectoryPath, selectedFilePath,
                   navigationHistory, explorerVars, clickTimeout, dbl, menuVars,
                   dragVars>>

(***************************************************************************)
(* External changes (the 'file-change' listener of AppLayout)              *)
(***************************************************************************)
\* the paths under the watched directory that change from outside: the file
\* /r/x is rewritten, the file /r/y is created or deleted
ChangedPaths == {<<"r", "x">>, <<"r", "y">>}

\* the disk after the external change of path p
Changed1(p) ==
    IF p = <<"r", "y">>
    THEN IF Exists(p) THEN fs \ {FileItem(p, FALSE)} ELSE fs \cup {FileItem(p, FALSE)}
    ELSE fs

\* the listener up to its first await; selected is the selectedFilePath of the
\* render that registered it, seen keeps the path of the notification
WatchOp(cdp, selected, changed) ==
    [Op("watch", cdp, {}, EmptyCache, 0) EXCEPT
        !.item = FileItem(selected, FALSE), !.seen = {changed}]

\* path p changes on disk and the watcher emits 'file-change' for it
ExternalChange(p) ==
    /\ p \in ChangedPaths
    /\ fs' = Changed1(p)
    /\ IF currentDirectoryPath # NoPath
       THEN inflight' = Append(inflight,
                               WatchOp(currentDirectoryPath, selectedFilePath, p))
       ELSE UNCHANGED inflight
    /\ UNCHANGED <<appVars, explorerVars, clickTimeout, dbl, menuVars, dragVars>>

\* the backend reads the directory for a listener; it answers the listings in
\* the order it received them
WatchServe(i, up) ==
    /\ i \in DOMAIN inflight
    /\ inflight[i].kind = "watch"
    /\ inflight[i].pc = "await"
    /\ \A k \in 1..(i - 1) : inflight[k].kind = "watch" => inflight[k].pc # "await"
    /\ inflight' = [inflight EXCEPT
                       ![i].pc = IF CanList(inflight[i].path, up)
                                 THEN "served" ELSE "failed",
                       ![i].result = Listing(inflight[i].path)]
    /\ UNCHANGED <<backendVars, appVars, explorerVars, clickTimeout, dbl, menuVars,
                   dragVars>>

\* the listener after its first await: the answer reaches it; it sets the
\* listing and, when a file is open, reads that file again
WatchComplete(i) ==
    /\ i \in DOMAIN inflight
    /\ inflight[i].kind = "watch"
    /\ inflight[i].pc # "await"
    /\ LET op == inflight[i]
           older == [k \in DOMAIN inflight |->
                       IF k < i /\ inflight[k].kind = "watch" /\ op.pc = "served"
                       THEN [inflight[k] EXCEPT !.stale = TRUE]
                       ELSE inflight[k]]
       IN IF op.pc = "served"
          THEN /\ files' = op.result
               /\ inflight' = IF op.item.path # NoPath
                               THEN [older EXCEPT ![i].kind = "watchRead",
                                                  ![i].pc = "await"]
                               ELSE RemoveAt(older, i)
          ELSE \* catch: console.error
               /\ inflight' = RemoveAt(older, i)
               /\ UNCHANGED files
    /\ UNCHANGED <<backendVars, currentDirectoryPath, error, selectedFilePath,
                   navigationHistory, navigationIndex, explorerVars, clickTimeout,
                   dbl, menuVars, dragVars>>

\* the listener after its second await: the content of the open file is set
\* (the editor's content is not part of this model) or the failure is logged
WatchReadComplete(i, up) ==
    /\ i \in DOMAIN inflight
    /\ inflight[i].kind = "watchRead"
    /\ inflight' = RemoveAt(inflight, i)
    /\ UNCHANGED <<backendVars, appVars, explorerVars, clickTimeout, dbl, menuVars,
                   dragVars>>

(***************************************************************************)
(* The click timer (handleItemClick, handleItemDoubleClick)                *)
(***************************************************************************)
\* the timer handleItemClick arms: its callback closes over the render's state
NewTimer(file) ==
    [file |-> file, snapExp |-> expandedFiles, snapCache |-> childrenCache,
     snapFiles |-> files]

\* the entry whose pending timer a click on file clears (clearTimeout of
\* clickTimeoutRef.current), when it is another entry
Superseded(file) ==
    IF clickTimeout # NoTimer /\ clickTimeout.file # file
    THEN clickTimeout.file
    ELSE NoItem

\* a click on a shown entry: any pending timer is cleared, a new one is armed
handleItemClick(file) ==
    /\ file \in Rendered
    /\ clickTimeout' = NewTimer(file)
    /\ dbl' = NoDbl
    /\ clicked' = [file |-> file, fired |-> <<>>, menu |-> FALSE,
                   prev |-> Superseded(file),
                   prevFired |-> IF Superseded(file) = clicked.file
                                 THEN clicked.fired ELSE <<>>]
    /\ UNCHANGED contextMenu
    /\ UNCHANGED <<backendVars, appVars, explorerVars, inflight, dragVars>>

\* the single-click actions the timer callback starts: toggle-folder when it
\* sets an expanded set other than the one its render showed or issues the
\* expand fetch of a folder, select-file when it issues the read of a file
SingleClickFired ==
    (IF /\ clickTimeout.file.isDirectory
        /\ \/ expandedFiles' # clickTimeout.snapExp
           \/ (Len(inflight') = Len(inflight) + 1
               /\ inflight'[Len(inflight')].kind = "expand")
     THEN <<"toggle-folder">> ELSE <<>>)
    \o (IF Len(inflight') = Len(inflight) + 1
           /\ inflight'[Len(inflight')].kind = "select"
        THEN <<"select-file">> ELSE <<>>)

\* the timer expires, 250 ms after the click that armed it
TimerFire ==
    /\ clickTimeout # NoTimer
    /\ LET t == clickTimeout
       IN IF t.file.isDirectory
          THEN handleFolderClick(t.file, t.snapExp, t.snapCache)
          ELSE /\ handleFileClick(t.file, t.snapFiles)
               /\ UNCHANGED explorerVars
    /\ clickTimeout' = NoTimer
    /\ dbl' = IF dbl # NoDbl /\ dbl.file = clickTimeout.file
              THEN [dbl EXCEPT !.single = 1]
              ELSE dbl
    /\ clicked' = IF clicked # NoClick /\ clicked.file = clickTimeout.file
                  THEN [clicked EXCEPT !.fired = @ \o SingleClickFired]
                  ELSE IF clicked # NoClick /\ clicked.prev = clickTimeout.file
                  THEN [clicked EXCEPT !.prevFired = @ \o SingleClickFired]
                  ELSE clicked
    /\ UNCHANGED contextMenu
    /\ UNCHANGED <<backendVars, navVars, selectedFilePath, dragVars>>

\* handleItemDoubleClick without its clearTimeout
handleItemDoubleClickKeepsTimer(file, pending) ==
    /\ clickTimeout' = pending
    /\ IF file.isDirectory
       THEN handleNavigateInto(file.path)
       ELSE UNCHANGED <<navVars, error, inflight>>

\* handleItemDoubleClick; pending is the timer left by the click handlers that
\* ran before it in the same gesture
handleItemDoubleClick(file, pending) ==
    /\ clickTimeout' = NoTimer
    /\ IF file.isDirectory
       THEN handleNavigateInto(file.path)
       ELSE UNCHANGED <<navVars, error, inflight>>

\* the second click of a double click, within the delay of the first: the
\* browser dispatches click and then dblclick on the entry
SecondClick(file) ==
    /\ clickTimeout # NoTimer
    /\ clickTimeout.file = file
    /\ file \in Rendered
    /\ handleItemDoubleClick(file, NewTimer(file))
    /\ dbl' = [file |-> file, single |-> 0,
               nav |-> Len(inflight') - Len(inflight)]
    /\ clicked' = NoClick
    /\ UNCHANGED contextMenu
    /\ UNCHANGED <<backendVars, selectedFilePath, explorerVars, dragVars>>

\* a right click on a shown entry: onContextMenu opens the menu on it
RightClick(file) ==
    /\ file \in Rendered
    /\ contextMenu' = file
    /\ clicked' = IF clicked # NoClick /\ clicked.file = file /\ clickTimeout # NoTimer
                  THEN [clicked EXCEPT !.menu = TRUE]
                  ELSE clicked
    /\ UNCHANGED <<backendVars, appVars, explorerVars, clickTimeout, inflight, dbl,
                   dragVars>>

(***************************************************************************)
(* Drag and drop (handleDragStart ... handleDragLeaveRoot)                 *)
(***************************************************************************)
\* invoke('rename_file_or_directory', ...) from a drop or drag-end handler that
\* moves item into the folder target
IssueMove(kind, item, target) ==
    LET newPath == joinPath(target, baseName(item.path))
    IN /\ moveLog' = Append(moveLog,
              [old |-> item.path, new |-> newPath,
               collides |-> newPath # item.path /\ Exists(newPath)])
       /\ inflight' = Append(inflight,
              MoveOp(kind, item, target, expandedFiles, childrenCache,
                     currentDirectoryPath))

handleDragStart(file) == draggedItem' = file

handleDragOverRoot ==
    IF draggedItem = NoItem
    THEN UNCHANGED dropTarget
    ELSE dropTarget' = RootTarget

\* on a file, and on the dragged item itself, the event is not stopped and
\* bubbles to the file list, whose handler is handleDragOverRoot
handleDragOver(file) ==
    IF ~file.isDirectory
    THEN handleDragOverRoot
    ELSE IF draggedItem # NoItem /\ draggedItem.path = file.path
    THEN handleDragOverRoot
    ELSE dropTarget' = file.path

\* exact: the element itself is left (e.currentTarget === e.target)
handleDragLeave(exact) ==
    IF exact THEN dropTarget' = NoTarget ELSE UNCHANGED dropTarget

handleDragLeaveRoot(exact) ==
    IF exact THEN dropTarget' = NoTarget ELSE UNCHANGED dropTarget

\* handleDropOnRoot up to its await
handleDropOnRoot ==
    /\ dropTarget' = NoTarget
    /\ IF draggedItem = NoItem \/ currentDirectoryPath = NoPath
       THEN UNCHANGED <<moveLog, inflight>>
       ELSE IF parentPath(draggedItem.path) = currentDirectoryPath
       THEN UNCHANGED <<moveLog, inflight>>
       ELSE IssueMove("dropRoot", draggedItem, currentDirectoryPath)

\* handleDrop up to its await; a drop on a file is not stopped and bubbles to
\* the file list, whose handler is handleDropOnRoot
handleDrop(onFolder) ==
    IF ~onFolder.isDirectory
    THEN handleDropOnRoot
    ELSE /\ dropTarget' = NoTarget
         /\ IF draggedItem = NoItem
            THEN UNCHANGED <<moveLog, inflight>>
            ELSE IF draggedItem.path = onFolder.path
            THEN UNCHANGED <<moveLog, inflight>>
            ELSE IssueMove("drop", draggedItem, onFolder.path)

\* handleDragEnd without the setDraggedItem(null) and setDropTarget(null) of the
\* path that has nothing to move
handleDragEndKeepsState ==
    IF dropTarget # NoTarget /\ draggedItem # NoItem
    THEN IF dropTarget = RootTarget
         THEN IF currentDirectoryPath = NoPath
                 \/ parentPath(draggedItem.path) = currentDirectoryPath
              THEN /\ draggedItem' = NoItem
                   /\ dropTarget' = NoTarget
                   /\ UNCHANGED <<moveLog, inflight>>
              ELSE /\ IssueMove("endRoot", draggedItem, currentDirectoryPath)
                   /\ UNCHANGED <<draggedItem, dropTarget>>
         ELSE IF ~\E f \in files : f.path = dropTarget /\ f.isDirectory
              THEN /\ draggedItem' = NoItem
                   /\ dropTarget' = NoTarget
                   /\ UNCHANGED <<moveLog, inflight>>
              ELSE /\ IssueMove("end", draggedItem, dropTarget)
                   /\ UNCHANGED <<draggedItem, dropTarget>>
    ELSE UNCHANGED <<draggedItem, dropTarget, moveLog, inflight>>

\* handleDragEnd up to its await
handleDragEnd ==
    IF dropTarget # NoTarget /\ draggedItem # NoItem
    THEN IF dropTarget = RootTarget
         THEN IF currentDirectoryPath = NoPath
                 \/ parentPath(draggedItem.path) = currentDirectoryPath
              THEN /\ draggedItem' = NoItem
                   /\ dropTarget' = NoTarget
                   /\ UNCHANGED <<moveLog, inflight>>
              ELSE /\ IssueMove("endRoot", draggedItem, currentDirectoryPath)
                   /\ UNCHANGED <<draggedItem, dropTarget>>
         ELSE IF ~\E f \in files : f.path = dropTarget /\ f.isDirectory
              THEN /\ draggedItem' = NoItem
                   /\ dropTarget' = NoTarget
                   /\ UNCHANGED <<moveLog, inflight>>
              ELSE /\ IssueMove("end", draggedItem, dropTarget)
                   /\ UNCHANGED <<draggedItem, dropTarget>>
    ELSE /\ draggedItem' = NoItem
         /\ dropTarget' = NoTarget
         /\ UNCHANGED <<moveLog, inflight>>

\* the expanded folders a successful move of item into target has changed
Changed(item, target) == {parentPath(item.path), target} \cap expandedFiles

\* handleDrop and handleDropOnRoot after their await: the backend has answered
\* the rename; on success onRefresh (AppLayout.handleRefresh) starts a listing
DropComplete(i, up) ==
    /\ i \in DOMAIN inflight
    /\ inflight[i].kind \in {"drop", "dropRoot"}
    /\ LET op == inflight[i]
           newPath == joinPath(op.path, baseName(op.item.path))
       IN IF CanMove(op.item.path, newPath, up)
          THEN /\ fs' = Moved(op.item.path, newPath)
               /\ error' = NoError
               /\ inflight' = Append(RemoveAt(inflight, i),
                                     Op("refresh", op.cdp, {}, EmptyCache, 0))
               /\ draggedItem' = NoItem
               /\ owed' = owed \cup Changed(op.item, op.path)
          ELSE /\ inflight' = RemoveAt(inflight, i)
               /\ UNCHANGED <<fs, error, draggedItem, owed>>
    /\ UNCHANGED <<navVars, selectedFilePath, explorerVars, clickTimeout, dbl, menuVars,
                   dropTarget, dragPhase, hover, moveLog, released>>

\* the await handleDragEnd suspends at next, after the one named by pc:
\* reloadExpandedFolder returns at once for a folder its render does not show
\* expanded
NextAwait(op) ==
    IF op.pc = "await" /\ parentPath(op.item.path) \in op.snapExp
    THEN "reloadSrc"
    ELSE IF op.pc \in {"await", "reloadSrc"} /\ op.kind = "end" /\ op.path \in op.snapExp
    THEN "reloadDst"
    ELSE "done"

\* the folder whose listing the await named by pc waits for
Reloaded(op, pc) == IF pc = "reloadSrc" THEN parentPath(op.item.path) ELSE op.path

\* handleDragEnd after one of its awaits: the rename, then reloadExpandedFolder
\* of the source folder, then of the target folder, then onRefresh
EndComplete(i, up) ==
    /\ i \in DOMAIN inflight
    /\ inflight[i].kind \in {"end", "endRoot"}
    /\ LET op == inflight[i]
           newPath == joinPath(op.path, baseName(op.item.path))
           moveFailed == op.pc = "await" /\ ~CanMove(op.item.path, newPath, up)
           next == NextAwait(op)
           folder == Reloaded(op, op.pc)
           res == handleFolderExpandResult(CanList(folder, up), Listing(folder))
       IN /\ fs' = IF op.pc = "await" /\ ~moveFailed
                   THEN Moved(op.item.path, newPath)
                   ELSE fs
          /\ childrenCache' = IF op.pc = "await"
                              THEN childrenCache
                              ELSE MapSet(op.snapCache, folder, res.children)
          /\ IF moveFailed
             THEN /\ inflight' = RemoveAt(inflight, i)
                  /\ draggedItem' = NoItem
                  /\ dropTarget' = NoTarget
                  /\ UNCHANGED <<error, owed>>
             ELSE /\ error' = NoError
                  /\ owed' = (owed \cup IF op.pc = "await"
                                        THEN Changed(op.item, op.path)
                                        ELSE {})
                             \ (IF next = "done" THEN {} ELSE {Reloaded(op, next)})
                  /\ IF next = "done"
                     THEN /\ inflight' = Append(RemoveAt(inflight, i),
                                            Op("refresh", op.cdp, {}, EmptyCache, 0))
                          /\ draggedItem' = NoItem
                          /\ dropTarget' = NoTarget
                     ELSE /\ inflight' = [inflight EXCEPT ![i].pc = next]
                          /\ UNCHANGED <<draggedItem, dropTarget>>
    /\ UNCHANGED <<navVars, selectedFilePath, expandedFiles, clickTimeout, dbl, menuVars,
                   dragPhase, hover, moveLog, released>>

\* AppLayout.handleRefresh after its await
RefreshComplete(i, up) ==
    /\ i \in DOMAIN inflight
    /\ inflight[i].kind = "refresh"
    /\ inflight' = RemoveAt(inflight, i)
    /\ IF CanList(inflight[i].path, up)
       THEN /\ files' = Listing(inflight[i].path)
            /\ UNCHANGED error
       ELSE /\ error' = ErrRefresh
            /\ UNCHANGED files
    /\ UNCHANGED <<backendVars, currentDirectoryPath, selectedFilePath,
                   navigationHistory, navigationIndex, explorerVars, clickTimeout,
                   dbl, menuVars, dragVars>>

\* the user starts dragging a shown entry
DragStart(file) ==
    /\ dragPhase = "idle"
    /\ file \in Rendered
    /\ handleDragStart(file)
    /\ dragPhase' = "dragging"
    /\ hover' = Outside
    /\ released' = NoRelease
    /\ UNCHANGED <<backendVars, appVars, explorerVars, clickTimeout, dbl, menuVars, dropTarget,
                   inflight, moveLog, owed>>

\* the pointer is over a shown entry
DragOver(file) ==
    /\ dragPhase = "dragging"
    /\ file \in Rendered
    /\ hover \in {Outside, file}
    /\ handleDragOver(file)
    /\ hover' = file
    /\ UNCHANGED <<backendVars, appVars, explorerVars, clickTimeout, dbl, menuVars, draggedItem,
                   inflight, dragPhase, moveLog, released, owed>>

\* the pointer is over the background of the file list
DragOverRootArea ==
    /\ dragPhase = "dragging"
    /\ hover \in {Outside, RootArea}
    /\ handleDragOverRoot
    /\ hover' = RootArea
    /\ UNCHANGED <<backendVars, appVars, explorerVars, clickTimeout, dbl, menuVars, draggedItem,
                   inflight, dragPhase, moveLog, released, owed>>

\* the pointer leaves what it was over
DragLeave(exact) ==
    /\ dragPhase = "dragging"
    /\ hover # Outside
    /\ IF hover = RootArea THEN handleDragLeaveRoot(exact) ELSE handleDragLeave(exact)
    /\ hover' = Outside
    /\ UNCHANGED <<backendVars, appVars, explorerVars, clickTimeout, dbl, menuVars, draggedItem,
                   inflight, dragPhase, moveLog, released, owed>>

\* the pointer is released over target and the drop event is delivered
DropOn(target) ==
    /\ dragPhase = "dragging"
    /\ hover = target
    /\ IF target = RootArea
       THEN handleDropOnRoot
       ELSE target \in Rendered /\ handleDrop(target)
    /\ dragPhase' = "dropped"
    /\ released' = [target |-> dropTarget, moves |-> Len(moveLog') - Len(moveLog)]
    /\ UNCHANGED <<backendVars, appVars, explorerVars, clickTimeout, dbl, menuVars, draggedItem,
                   hover, owed>>

\* the drag-end event is delivered, after the drop event if there was one
DragEnd ==
    /\ dragPhase \in {"dragging", "dropped"}
    /\ handleDragEnd
    /\ dragPhase' = "idle"
    /\ hover' = Outside
    /\ released' = IF dragPhase = "dragging"
                   THEN [target |-> dropTarget, moves |-> Len(moveLog') - Len(moveLog)]
                   ELSE [released EXCEPT !.moves = @ + Len(moveLog') - Len(moveLog)]
    /\ UNCHANGED <<backendVars, appVars, explorerVars, clickTimeout, dbl, menuVars, owed>>

(***************************************************************************)
(* Editing and saving (MarkdownEditor, AppLayout.handleSave).  The editor  *)
(* is mounted with key selectedFilePath, so it is replaced by a new one    *)
(* when another file is opened.  The 2 s timer is kept without a clock: a  *)
(* pending timer means that less than 2 s have passed since it was armed.  *)
(***************************************************************************)
\* write_file_contents succeeds
CanWrite(p, up) == up /\ DirExists(parentPath(p))

\* the editor after a render with the given filePath and content props.  A new
\* key unmounts the editor (the cleanup clears the timer) and mounts one whose
\* document is the content.  Otherwise the effect on [content, filePath]
\* dispatches the content into the view when it differs from the document, and
\* updateListener then calls onChange and arms the auto-save timer
EditorRendered(filePath, newContent) ==
    IF filePath # selectedFilePath
    THEN /\ doc' = newContent
         /\ autoSaveTimer' = FALSE
    ELSE IF newContent # doc
    THEN /\ doc' = newContent
         /\ autoSaveTimer' = TRUE
    ELSE UNCHANGED <<doc, autoSaveTimer>>

\* the user clicks a shown file and the click timer calls onFileSelect
FileSelect(file) ==
    /\ file \in Rendered
    /\ ~file.isDirectory
    /\ handleFileSelect(file.path, files)
    /\ UNCHANGED <<backendVars, navVars, selectedFilePath, explorerVars, clickTimeout,
                   dbl, menuVars, dragVars, editorVars>>

\* handleFileSelect after its await, and the render that follows
SelectCompleteEdit(i, up) ==
    /\ SelectComplete(i, up)
    /\ IF CanRead(inflight[i].path, up)
       THEN /\ content' = disk[inflight[i].path]
            /\ EditorRendered(inflight[i].path, disk[inflight[i].path])
       ELSE UNCHANGED <<content, doc, autoSaveTimer>>
    /\ UNCHANGED <<disk, saved, burst>>

\* the user types into the editor: updateListener calls onChange with the
\* document and arms the timer, clearing the pending one
Type ==
    /\ selectedFilePath # NoPath
    /\ doc.typed < MaxTyped
    /\ doc' = [doc EXCEPT !.typed = @ + 1]
    /\ content' = doc'
    /\ autoSaveTimer' = TRUE
    /\ burst' = TRUE
    /\ UNCHANGED <<backendVars, appVars, explorerVars, clickTimeout, inflight, dbl,
                   menuVars, dragVars, disk, saved>>

\* handleSave up to its await
handleSave ==
    IF selectedFilePath = NoPath
    THEN UNCHANGED <<inflight, error>>
    ELSE /\ error' = NoError
         /\ inflight' = Append(inflight,
                [Op("save", selectedFilePath, {}, EmptyCache, 0) EXCEPT
                    !.result = {content}])

\* 2 s have passed since the timer was armed: its callback calls onSave
AutoSaveFire ==
    /\ autoSaveTimer
    /\ handleSave
    /\ autoSaveTimer' = FALSE
    /\ burst' = FALSE
    /\ UNCHANGED <<backendVars, navVars, selectedFilePath, explorerVars, clickTimeout,
                   dbl, menuVars, dragVars, content, doc, disk, saved>>

\* Mod-s in the editor
ManualSave ==
    /\ selectedFilePath # NoPath
    /\ handleSave
    /\ UNCHANGED <<backendVars, navVars, selectedFilePath, explorerVars, clickTimeout,
                   dbl, menuVars, dragVars, editorVars>>

\* handleSave after its await
SaveComplete(i, up) ==
    /\ i \in DOMAIN inflight
    /\ inflight[i].kind = "save"
    /\ inflight' = RemoveAt(inflight, i)
    /\ LET op == inflight[i]
           text == CHOOSE t \in op.result : TRUE
       IN IF CanWrite(op.path, up)
          THEN /\ disk' = [disk EXCEPT ![op.path] = text]
               /\ saved' = [path |-> op.path, text |-> text]
               /\ UNCHANGED error
          ELSE /\ error' = ErrSave
               /\ UNCHANGED <<disk, saved>>
    /\ UNCHANGED <<backendVars, navVars, selectedFilePath, explorerVars, clickTimeout,
                   dbl, menuVars, dragVars, content, doc, autoSaveTimer, burst>>

\* another program rewrites the file at path p, and the watcher emits
\* 'file-change' for it
ExternalRewrite(p) ==
    /\ p \in DOMAIN disk
    /\ disk[p].origin = p
    /\ disk[p].rev < MaxRewrites
    /\ ExternalChange(p)
    /\ disk' = [disk EXCEPT ![p] = Text(p, disk[p].rev + 1)]
    /\ UNCHANGED <<content, doc, autoSaveTimer, saved, burst>>

\* the listener after its second await: it sets the content to what it read
\* from the file that was open when it was registered; the render follows
WatchReadCompleteEdit(i, up) ==
    /\ WatchReadComplete(i, up)
    /\ IF CanRead(inflight[i].item.path, up)
       THEN /\ content' = disk[inflight[i].item.path]
            /\ EditorRendered(selectedFilePath, disk[inflight[i].item.path])
       ELSE UNCHANGED <<content, doc, autoSaveTimer>>
    /\ UNCHANGED <<disk, saved, burst>>

(***************************************************************************)
(* The editor and preview panes (ResizablePanes, and the toolbar of        *)
(* AppLayout).  A control that is not rendered, or is disabled, cannot be  *)
(* clicked.                                                                *)
(***************************************************************************)
MIN_WIDTH_PERCENT == 20

MAX_WIDTH_PERCENT == 80

\* where the pointer can be, in percent of the container's width
Percent == 0..100

Min(a, b) == IF a < b THEN a ELSE b

Max(a, b) == IF a > b THEN a ELSE b

handleCollapseEditor == isEditorCollapsed' = ~isEditorCollapsed

handleCollapsePreview == isPreviewCollapsed' = ~isPreviewCollapsed

\* the disabled props of the collapse buttons of the panes and of the toggle
\* buttons of the toolbar
CollapseLeftDisabled == isPreviewCollapsed

CollapseRightDisabled == isEditorCollapsed

ToggleEditorDisabled == isPreviewCollapsed

\* a toggle-preview button that is never disabled
TogglePreviewNeverDisabled == FALSE

TogglePreviewDisabled == isEditorCollapsed

\* collapse-left-button, rendered while the left pane is shown
CollapseLeft ==
    /\ ~isEditorCollapsed
    /\ ~CollapseLeftDisabled
    /\ handleCollapseEditor
    /\ UNCHANGED <<isPreviewCollapsed, leftWidth, isDragging>>

\* expand-left-button, rendered while the left pane is collapsed
ExpandLeft ==
    /\ isEditorCollapsed
    /\ handleCollapseEditor
    /\ UNCHANGED <<isPreviewCollapsed, leftWidth, isDragging>>

CollapseRight ==
    /\ ~isPreviewCollapsed
    /\ ~CollapseRightDisabled
    /\ handleCollapsePreview
    /\ UNCHANGED <<isEditorCollapsed, leftWidth, isDragging>>

ExpandRight ==
    /\ isPreviewCollapsed
    /\ handleCollapsePreview
    /\ UNCHANGED <<isEditorCollapsed, leftWidth, isDragging>>

\* toggle-editor-button of the toolbar, rendered while a directory is open
ToggleEditor ==
    /\ currentDirectoryPath # NoPath
    /\ ~ToggleEditorDisabled
    /\ handleCollapseEditor
    /\ UNCHANGED <<isPreviewCollapsed, leftWidth, isDragging>>

TogglePreview ==
    /\ currentDirectoryPath # NoPath
    /\ ~TogglePreviewDisabled
    /\ handleCollapsePreview
    /\ UNCHANGED <<isEditorCollapsed, leftWidth, isDragging>>

\* handleMouseDown on the divider, rendered while both panes are shown
DividerMouseDown ==
    /\ ~isEditorCollapsed
    /\ ~isPreviewCollapsed
    /\ isDragging' = TRUE
    /\ UNCHANGED <<isEditorCollapsed, isPreviewCollapsed, leftWidth>>

\* handleMouseMove with the pointer at newLeftWidthPercent
handleMouseMove(newLeftWidthPercent) ==
    /\ IF isDragging
       THEN leftWidth' = Min(Max(newLeftWidthPercent, MIN_WIDTH_PERCENT), MAX_WIDTH_PERCENT)
       ELSE UNCHANGED leftWidth
    /\ UNCHANGED <<isEditorCollapsed, isPreviewCollapsed, isDragging>>

handleMouseUp ==
    /\ isDragging' = FALSE
    /\ UNCHANGED <<isEditorCollapsed, isPreviewCollapsed, leftWidth>>

(***************************************************************************)
(* Sorting (sortedFiles, renderFileItem): a FileExplorer that is given a   *)
(* files prop and shows it, with the folder /r/a expanded or not           *)
(***************************************************************************)
\* the entries of the listed directory and of its folder /r/a
SortEntries ==
    { FileItem(<<"r", "b.md">>, FALSE), FileItem(<<"r", "A">>, TRUE),
      FileItem(<<"r", "z.md">>, FALSE), FileItem(<<"r", "a">>, TRUE) }

SortChildren ==
    { FileItem(<<"r", "a", "z.md">>, FALSE), FileItem(<<"r", "a", "B.md">>, FALSE),
      FileItem(<<"r", "a", "c">>, TRUE) }

\* the orders in which a backend listing can give the entries of a set
Orderings(S) ==
    {q \in [1..Cardinality(S) -> S] : \A i, j \in 1..Cardinality(S) : q[i] = q[j] => i = j}

\* name.toLowerCase(), on the names above
toLowerCase(name) ==
    IF name = "A" THEN "a" ELSE IF name = "B.md" THEN "b.md" ELSE name

\* the lowercase names in the order of localeCompare
Collation == <<"a", "b.md", "c", "z.md">>

Rank(name) == CHOOSE i \in DOMAIN Collation : Collation[i] = name

\* a.localeCompare(b): negative, zero or positive
localeCompare(a, b) == Rank(a) - Rank(b)

\* the comparator of sortedFiles
compareFiles(a, b) ==
    IF a.isDirectory /\ ~b.isDirectory THEN -1
    ELSE IF ~a.isDirectory /\ b.isDirectory THEN 1
    ELSE localeCompare(toLowerCase(baseName(a.path)), toLowerCase(baseName(b.path)))

\* Array.prototype.sort is stable: an entry goes behind the entries that do not
\* compare greater
InsertSorted(sorted, e) ==
    LET k == Cardinality({i \in DOMAIN sorted : compareFiles(sorted[i], e) <= 0})
    IN SubSeq(sorted, 1, k) \o <<e>> \o SubSeq(sorted, k + 1, Len(sorted))

\* [...files].sort(comparator)
RECURSIVE sortedFiles(_)
sortedFiles(list) ==
    IF list = <<>>
    THEN <<>>
    ELSE InsertSorted(sortedFiles(SubSeq(list, 1, Len(list) - 1)), list[Len(list)])

\* the render: the root list is sortedFiles; below an expanded folder
\* renderFileItem shows the cached children in the order of the cache
Render ==
    /\ listed # NoLists
    /\ displayed' = [files |-> sortedFiles(listed.files),
                     children |-> IF listed.expanded THEN listed.children ELSE <<>>,
                     expanded |-> listed.expanded]
    /\ UNCHANGED listed

\* the backend lists the directory and the folder again, and the folder is
\* expanded or collapsed
Relist ==
    /\ listed' \in [files : Orderings(SortEntries), children : Orderings(SortChildren),
                     expanded : BOOLEAN]
    /\ listed' # listed
    /\ displayed' = NoLists

(***************************************************************************)
(* Create, rename and delete (the dialogs of FileExplorer)                 *)
(***************************************************************************)
\* the names the user types into a dialog
TypedNames == {"x", "n"}

CrudKinds == {"create-file", "create-folder", "rename", "delete"}

\* a suspended create, rename or delete handler: item is its targetFile, path
\* the path it passes to the backend (the new path; for delete, the path of
\* item) and cdp the currentDirectoryPath of its render
CrudOp(kind, item, path, cdp) ==
    [kind |-> kind, path |-> path, snapExp |-> {}, snapCache |-> EmptyCache,
     snapIdx |-> 0, seen |-> {}, item |-> item, pc |-> "await", cdp |-> cdp,
     collapsed |-> FALSE, result |-> {}, stale |-> FALSE]

\* the toolbar buttons New File and New Folder
ToolbarNew(kind) ==
    /\ kind \in {"create-file", "create-folder"}
    /\ activeDialog' = kind
    /\ UNCHANGED <<targetFile, targetFolder, contextMenu, inflight, moveLog>>

handleContextMenuRename ==
    /\ contextMenu # NoItem
    /\ targetFile' = contextMenu
    /\ activeDialog' = "rename"
    /\ contextMenu' = NoItem
    /\ UNCHANGED <<targetFolder, inflight, moveLog>>

handleContextMenuDelete ==
    /\ contextMenu # NoItem
    /\ targetFile' = contextMenu
    /\ activeDialog' = "delete"
    /\ contextMenu' = NoItem
    /\ UNCHANGED <<targetFolder, inflight, moveLog>>

handleContextMenuNewFileInFolder ==
    /\ contextMenu # NoItem
    /\ contextMenu.isDirectory
    /\ targetFolder' = contextMenu
    /\ activeDialog' = "create-file"
    /\ contextMenu' = NoItem
    /\ UNCHANGED <<targetFile, inflight, moveLog>>

handleContextMenuNewFolderInFolder ==
    /\ contextMenu # NoItem
    /\ contextMenu.isDirectory
    /\ targetFolder' = contextMenu
    /\ activeDialog' = "create-folder"
    /\ contextMenu' = NoItem
    /\ UNCHANGED <<targetFile, inflight, moveLog>>

\* onCancel of the open dialog
DialogCancel ==
    /\ activeDialog # NoDialog
    /\ activeDialog' = NoDialog
    /\ IF activeDialog \in {"create-file", "create-folder"}
       THEN targetFolder' = NoItem /\ UNCHANGED targetFile
       ELSE targetFile' = NoItem /\ UNCHANGED targetFolder
    /\ UNCHANGED <<contextMenu, inflight, moveLog>>

\* handleCreateFile and handleCreateFolder up to their await
handleCreate(kind, name) ==
    /\ activeDialog = kind
    /\ kind \in {"create-file", "create-folder"}
    /\ LET basePath == IF targetFolder # NoItem THEN targetFolder.path
                                                ELSE currentDirectoryPath
       IN inflight' = Append(inflight,
              CrudOp(kind, NoItem, joinPath(basePath, name), currentDirectoryPath))
    /\ moveLog' = Append(moveLog, [old |-> NoPath, new |-> NoPath, collides |-> FALSE])
    /\ UNCHANGED <<dialogVars, contextMenu>>

\* handleRename up to its await
handleRename(newName) ==
    /\ activeDialog = "rename"
    /\ targetFile # NoItem
    /\ inflight' = Append(inflight,
           CrudOp("rename", targetFile, joinPath(parentPath(targetFile.path), newName),
                  currentDirectoryPath))
    /\ moveLog' = Append(moveLog, [old |-> NoPath, new |-> NoPath, collides |-> FALSE])
    /\ UNCHANGED <<dialogVars, contextMenu>>

\* handleDelete up to its await
handleDelete ==
    /\ activeDialog = "delete"
    /\ targetFile # NoItem
    /\ inflight' = Append(inflight,
           CrudOp("delete", targetFile, targetFile.path, currentDirectoryPath))
    /\ moveLog' = Append(moveLog, [old |-> NoPath, new |-> NoPath, collides |-> FALSE])
    /\ UNCHANGED <<dialogVars, contextMenu>>

\* the backend accepts the call of a suspended create, rename or delete handler
CrudSucceeds(op, up) ==
    IF op.kind \in {"create-file", "create-folder"} THEN CanCreate(op.path, up)
    ELSE IF op.kind = "rename" THEN CanMove(op.item.path, op.path, up)
    ELSE CanDelete(op.item, up)

\* the disk after that call
CrudEffect(op) ==
    IF op.kind = "create-file" THEN fs \cup {FileItem(op.path, FALSE)}
    ELSE IF op.kind = "create-folder" THEN fs \cup {FileItem(op.path, TRUE)}
    ELSE IF op.kind = "rename" THEN Moved(op.item.path, op.path)
    ELSE Deleted(op.item)

\* the four handlers after their await: on success the dialog is closed and
\* onRefresh (AppLayout.handleRefresh) starts a listing; the catch blocks only
\* call console.error
CrudComplete(i, up) ==
    /\ i \in DOMAIN inflight
    /\ inflight[i].kind \in CrudKinds
    /\ LET op == inflight[i]
       IN IF CrudSucceeds(op, up)
          THEN /\ fs' = CrudEffect(op)
               /\ activeDialog' = NoDialog
               /\ IF op.kind \in {"rename", "delete"}
                  THEN /\ targetFile' = NoItem
                       /\ contextMenu' = NoItem
                       /\ UNCHANGED targetFolder
                  ELSE /\ targetFolder' = NoItem
                       /\ UNCHANGED <<targetFile, contextMenu>>
               /\ error' = NoError
               /\ inflight' = Append(RemoveAt(inflight, i),
                                     Op("refresh", op.cdp, {}, EmptyCache, 0))
          ELSE /\ inflight' = RemoveAt(inflight, i)
               /\ UNCHANGED <<fs, error, dialogVars, contextMenu>>
    /\ UNCHANGED <<navVars, selectedFilePath, explorerVars, clickTimeout, dbl, clicked,
                   dragVars>>

\* what the dialog handlers, which run to their end or to their await at once,
\* leave alone
CrudFrame ==
    UNCHANGED <<backendVars, appVars, explorerVars, clickTimeout, dbl, clicked,
                draggedItem, dropTarget, dragPhase, hover, released, owed>>

(***************************************************************************)
(* Specifications                                                          *)
(***************************************************************************)
\* expansion: single clicks on folders and the fetches they start
NextExpand ==
    \/ \E f \in Rendered : f.isDirectory /\ handleItemClick(f) /\ UNCHANGED otherVars
    \/ (Len(inflight) < MaxInflight /\ TimerFire) /\ UNCHANGED otherVars
    \/ \E i \in DOMAIN inflight, up \in BOOLEAN : ExpandComplete(i, up) /\ UNCHANGED otherVars

SpecExpand == Init /\ [][NextExpand]_vars

\* clicks and double clicks on any entry
NextClick ==
    \/ \E f \in Rendered : handleItemClick(f) /\ UNCHANGED otherVars
    \/ \E f \in Rendered : (Len(inflight) < MaxClickInflight /\ SecondClick(f)) /\ UNCHANGED otherVars
    \/ (Len(inflight) < MaxClickInflight /\ TimerFire) /\ UNCHANGED otherVars
    \/ \E i \in DOMAIN inflight, up \in BOOLEAN : ExpandComplete(i, up) /\ UNCHANGED otherVars
    \/ \E i \in DOMAIN inflight, up \in BOOLEAN : SelectComplete(i, up) /\ UNCHANGED otherVars
    \/ \E i \in DOMAIN inflight, up \in BOOLEAN : NavigateComplete(i, up) /\ UNCHANGED otherVars

SpecClick == Init /\ [][NextClick]_vars

\* clicks and right clicks
NextMenu ==
    \/ \E f \in Rendered : handleItemClick(f) /\ UNCHANGED otherVars
    \/ \E f \in Rendered : RightClick(f) /\ UNCHANGED otherVars
    \/ (Len(inflight) < MaxMenuInflight /\ TimerFire) /\ UNCHANGED otherVars
    \/ \E i \in DOMAIN inflight, up \in BOOLEAN : ExpandComplete(i, up) /\ UNCHANGED otherVars
    \/ \E i \in DOMAIN inflight, up \in BOOLEAN : SelectComplete(i, up) /\ UNCHANGED otherVars

SpecMenu == Init /\ [][NextMenu]_vars

\* navigation: double clicks on folders, the back and forward buttons
NavBounds ==
    /\ Len(inflight') <= MaxNavInflight
    /\ Len(navigationHistory') <= MaxHistory

NextNav ==
    \/ \E f \in files : (NavigateInto(f) /\ NavBounds) /\ UNCHANGED otherVars
    \/ (handleNavigateBack /\ NavBounds) /\ UNCHANGED otherVars
    \/ (handleNavigateForward /\ NavBounds) /\ UNCHANGED otherVars
    \/ \E i \in DOMAIN inflight, up \in BOOLEAN : (NavigateComplete(i, up) /\ NavBounds) /\ UNCHANGED otherVars
    \/ \E i \in DOMAIN inflight, up \in BOOLEAN : HistoryComplete(i, up) /\ UNCHANGED otherVars

SpecNav == Init /\ [][NextNav]_vars

\* external changes while the user opens files
NextWatch ==
    \/ \E f \in files : ~f.isDirectory /\ handleItemClick(f) /\ UNCHANGED otherVars
    \/ (Len(inflight) < MaxWatchInflight /\ TimerFire) /\ UNCHANGED otherVars
    \/ \E i \in DOMAIN inflight, up \in BOOLEAN : SelectComplete(i, up) /\ UNCHANGED otherVars
    \/ \E p \in ChangedPaths : (Len(inflight) < MaxWatchInflight /\ ExternalChange(p)) /\ UNCHANGED otherVars
    \/ \E i \in DOMAIN inflight, up \in BOOLEAN : WatchServe(i, up) /\ UNCHANGED otherVars
    \/ \E i \in DOMAIN inflight : WatchComplete(i) /\ UNCHANGED otherVars
    \/ \E i \in DOMAIN inflight, up \in BOOLEAN : WatchReadComplete(i, up) /\ UNCHANGED otherVars

SpecWatch == Init /\ [][NextWatch]_vars

\* the context menu and the create, rename and delete dialogs
CrudOthers == <<listed, displayed, editorVars, paneVars>>

CrudBounds == Len(inflight) < MaxCrudInflight /\ Len(moveLog) < MaxCrudCalls

NextCrud ==
    \/ \E f \in Rendered : RightClick(f) /\ UNCHANGED dialogVars /\ UNCHANGED CrudOthers
    \/ \E k \in CrudKinds : ToolbarNew(k) /\ CrudFrame /\ UNCHANGED CrudOthers
    \/ handleContextMenuRename /\ CrudFrame /\ UNCHANGED CrudOthers
    \/ handleContextMenuDelete /\ CrudFrame /\ UNCHANGED CrudOthers
    \/ handleContextMenuNewFileInFolder /\ CrudFrame /\ UNCHANGED CrudOthers
    \/ handleContextMenuNewFolderInFolder /\ CrudFrame /\ UNCHANGED CrudOthers
    \/ DialogCancel /\ CrudFrame /\ UNCHANGED CrudOthers
    \/ \E k \in CrudKinds, n \in TypedNames :
          CrudBounds /\ handleCreate(k, n) /\ CrudFrame
          /\ UNCHANGED CrudOthers
    \/ \E n \in TypedNames :
          CrudBounds /\ handleRename(n) /\ CrudFrame
          /\ UNCHANGED CrudOthers
    \/ CrudBounds /\ handleDelete /\ CrudFrame /\ UNCHANGED CrudOthers
    \/ \E i \in DOMAIN inflight, up \in BOOLEAN : CrudComplete(i, up) /\ UNCHANGED CrudOthers
    \/ \E i \in DOMAIN inflight, up \in BOOLEAN :
          RefreshComplete(i, up) /\ UNCHANGED dialogVars /\ UNCHANGED CrudOthers

SpecCrud == Init /\ [][NextCrud]_vars

\* sorting: any order of the listing of the directory and of its folder
InitSort ==
    /\ InitWith({})
    /\ listed \in [files : Orderings(SortEntries), children : Orderings(SortChildren),
                    expanded : BOOLEAN]

SortOthers == <<backendVars, appVars, explorerVars, clickTimeout, inflight, dbl,
                menuVars, dragVars, dialogVars, editorVars, paneVars>>

NextSort ==
    \/ Render /\ UNCHANGED SortOthers
    \/ Relist /\ UNCHANGED SortOthers

SpecSort == InitSort /\ [][NextSort]_vars

\* editing: the folder /r/d1 is expanded, so that two files are shown
InitEdit == InitWith({<<"r", "d1">>}) /\ listed = NoLists

EditOthers == <<dialogVars, orderVars, paneVars>>

EditBounds == Len(inflight) < MaxEditInflight

NextEdit ==
    \/ \E f \in Rendered : EditBounds /\ FileSelect(f) /\ UNCHANGED EditOthers
    \/ \E i \in DOMAIN inflight, up \in BOOLEAN :
          SelectCompleteEdit(i, up) /\ UNCHANGED EditOthers
    \/ Type /\ UNCHANGED EditOthers
    \/ EditBounds /\ AutoSaveFire /\ UNCHANGED EditOthers
    \/ EditBounds /\ ManualSave /\ UNCHANGED EditOthers
    \/ \E i \in DOMAIN inflight, up \in BOOLEAN :
          SaveComplete(i, up) /\ UNCHANGED EditOthers
    \/ \E p \in ChangedPaths : EditBounds /\ ExternalRewrite(p) /\ UNCHANGED EditOthers
    \/ \E i \in DOMAIN inflight, up \in BOOLEAN :
          WatchServe(i, up) /\ UNCHANGED editorVars /\ UNCHANGED EditOthers
    \/ \E i \in DOMAIN inflight :
          WatchComplete(i) /\ UNCHANGED editorVars /\ UNCHANGED EditOthers
    \/ \E i \in DOMAIN inflight, up \in BOOLEAN :
          WatchReadCompleteEdit(i, up) /\ UNCHANGED EditOthers

SpecEdit == InitEdit /\ [][NextEdit]_vars

\* the panes: the collapse and expand buttons, the toolbar toggles, the divider
PaneOthers == <<backendVars, appVars, explorerVars, clickTimeout, inflight, dbl,
                menuVars, dragVars, dialogVars, orderVars, editorVars>>

NextPanes ==
    \/ CollapseLeft /\ UNCHANGED PaneOthers
    \/ ExpandLeft /\ UNCHANGED PaneOthers
    \/ CollapseRight /\ UNCHANGED PaneOthers
    \/ ExpandRight /\ UNCHANGED PaneOthers
    \/ ToggleEditor /\ UNCHANGED PaneOthers
    \/ TogglePreview /\ UNCHANGED PaneOthers
    \/ DividerMouseDown /\ UNCHANGED PaneOthers
    \/ \E x \in Percent : handleMouseMove(x) /\ UNCHANGED PaneOthers
    \/ handleMouseUp /\ UNCHANGED PaneOthers

SpecPanes == Init /\ [][NextPanes]_vars

\* drag and drop over a tree with some folders expanded
DragBounds ==
    /\ Len(inflight') <= MaxDragInflight
    /\ Len(moveLog') <= MaxMoves

NextDrag ==
    \/ \E f \in Rendered : DragStart(f) /\ UNCHANGED otherVars
    \/ \E f \in Rendered : DragOver(f) /\ UNCHANGED otherVars
    \/ DragOverRootArea /\ UNCHANGED otherVars
    \/ \E exact \in BOOLEAN : DragLeave(exact) /\ UNCHANGED otherVars
    \/ \E t \in Rendered \cup {RootArea} : (DropOn(t) /\ DragBounds) /\ UNCHANGED otherVars
    \/ (DragEnd /\ DragBounds) /\ UNCHANGED otherVars
    \/ \E i \in DOMAIN inflight, up \in BOOLEAN : DropComplete(i, up) /\ UNCHANGED otherVars
    \/ \E i \in DOMAIN inflight, up \in BOOLEAN : EndComplete(i, up) /\ UNCHANGED otherVars
    \/ \E i \in DOMAIN inflight, up \in BOOLEAN : RefreshComplete(i, up) /\ UNCHANGED otherVars

SpecDrag == InitDrag /\ [][NextDrag]_vars

(***************************************************************************)
(* Properties of expansion                                                 *)
(***************************************************************************)
\* this step starts an expand fetch for directory d
IssuesExpandFetch(d) ==
    /\ Len(inflight') = Len(inflight) + 1
    /\ inflight'[Len(inflight')].kind = "expand"
    /\ inflight'[Len(inflight')].path = d

\* C1: at most one expand fetch per directory path is in flight at a time
C1_OneExpandFetchInFlight ==
    \A i, j \in DOMAIN inflight :
        (i # j /\ inflight[i].kind = "expand" /\ inflight[j].kind = "expand")
            => inflight[i].path # inflight[j].path

\* C2: once the listing of a directory has been fetched into the cache, no later
\* toggle (collapse or re-expand) issues another expand fetch for it
C2_NoRefetchOnceCached ==
    [][\A d \in DOMAIN childrenCache : ~IssuesExpandFetch(d)]_vars

\* C3: when the expand fetch of a directory completes, every directory whose own
\* expand fetch completed while this one was pending (and that is still shown
\* expanded with its children) stays expanded with the same cached children,
\* and the completing directory is expanded with its children cached
C3_OutOfOrderCompletion ==
    [][\A i \in DOMAIN inflight, up \in BOOLEAN :
          ExpandComplete(i, up) =>
             \A d \in inflight[i].seen :
                (d \in expandedFiles /\ d \in DOMAIN childrenCache) =>
                    /\ d \in expandedFiles'
                    /\ d \in DOMAIN childrenCache'
                    /\ childrenCache'[d] = childrenCache[d]
                    /\ inflight[i].path \in expandedFiles'
                    /\ inflight[i].path \in DOMAIN childrenCache']_vars

\* C4: when the fetch of an expand fails, the directory is shown expanded with
\* no children and the error is displayed
C4_FailedFetchExpandedChildless ==
    [][\A i \in DOMAIN inflight, up \in BOOLEAN :
          (ExpandComplete(i, up) /\ ~CanList(inflight[i].path, up)) =>
             /\ inflight[i].path \in expandedFiles'
             /\ inflight[i].path \in DOMAIN childrenCache'
             /\ childrenCache'[inflight[i].path] = {}
             /\ error' = ErrLoadDir]_vars

\* a directory that has children on disk is shown expanded and childless, with
\* the error displayed: its fetch failed
C4_Witness ==
    \E d \in expandedFiles :
        /\ d \in DOMAIN childrenCache
        /\ childrenCache[d] = {}
        /\ Listing(d) # {}
        /\ error = ErrLoadDir

(***************************************************************************)
(* Properties of the click timer                                           *)
(***************************************************************************)
\* C10: after a click and a second click on the same entry within the delay, the
\* single-click action of that entry never fires, and navigate-into has fired
\* exactly once for a directory and not at all for a file
C10_DoubleClickFiresNavigateOnly ==
    dbl # NoDbl =>
        /\ dbl.single = 0
        /\ dbl.nav = IF dbl.file.isDirectory THEN 1 ELSE 0

C10_Witness ==
    dbl # NoDbl /\ dbl.file.isDirectory /\ dbl.nav = 1 /\ clickTimeout = NoTimer

\* a suspended handler that performs a move
MoveHandler(op) == op.kind \in {"drop", "dropRoot", "end", "endRoot"}

\* C5: while a directory is dragged, no directory lying under it is the drop
\* target, and no rename call is issued whose new path lies under the dragged
\* source.
C5_NoMoveIntoDescendant ==
    /\ (draggedItem # NoItem /\ draggedItem.isDirectory)
           => ~IsDescendant(dropTarget, draggedItem.path)
    /\ \A k \in DOMAIN moveLog : ~IsDescendant(moveLog[k].new, moveLog[k].old)

\* C6: no rename call is issued whose new path already exists as another entry.
C6_NoCallForCollidingDestination ==
    \A k \in DOMAIN moveLog : ~moveLog[k].collides

\* C7: a drop of the dragged entry delivered on a file entry, or on the dragged
\* entry itself, issues no rename call and starts no refresh, wherever the
\* dragged entry lies in the tree.
C7_DropOnFileOrSelfHasNoEffect ==
    [][\A t \in Rendered :
          (/\ DropOn(t)
           /\ draggedItem # NoItem
           /\ (~t.isDirectory \/ t.path = draggedItem.path))
              => (moveLog' = moveLog /\ inflight' = inflight)]_vars

\* C8: a finished drag gesture whose pointer was released while a folder was the
\* drop target has issued exactly one rename call, whether the drop event, the
\* drag-end event or both were delivered; one released with no drop target has
\* issued none.
C8_ReleaseWithTargetMovesOnce ==
    (dragPhase = "idle" /\ released # NoRelease)
        => /\ (released.target \notin {NoTarget, RootTarget}) => released.moves = 1
           /\ (released.target = NoTarget) => released.moves = 0

\* C9: once the handler of a successful move has run to its end, every expanded
\* folder the move changed (the source's former parent, the destination) has
\* had its children fetched again.
C9_ExpandedFoldersRefreshedAfterMove ==
    (\A i \in DOMAIN inflight : ~MoveHandler(inflight[i])) => owed = {}

\* the single-click action of an entry
SingleClickAction(file) ==
    IF file.isDirectory THEN <<"toggle-folder">> ELSE <<"select-file">>

C12_ContextMenuCancelsTimer ==
    (clicked # NoClick /\ clicked.menu) => clicked.fired = <<>>

(***************************************************************************)
(* Properties of the navigation history                                    *)
(***************************************************************************)
\* C13: when a navigation into a directory has loaded and visits its path, a
\* path other than the one at the cursor leaves the history truncated to
\* cursor + 1 entries with the path appended and the cursor on the last entry
\* (so that forward has nothing to go to); the path at the cursor changes
\* nothing
C13_VisitTruncatesAndAppends ==
    [][\A i \in DOMAIN inflight, up \in BOOLEAN :
          (NavigateComplete(i, up) /\ CanList(inflight[i].path, up)) =>
             IF HistoryAt(navigationIndex) = inflight[i].path
             THEN UNCHANGED <<navigationHistory, navigationIndex>>
             ELSE /\ navigationHistory' =
                        Append(SubSeq(navigationHistory, 1, navigationIndex + 1),
                               inflight[i].path)
                  /\ navigationIndex' = Len(navigationHistory') - 1]_vars

\* C14: a back or forward whose directory has loaded leaves the cursor exactly
\* one position before or after where it was, on the path the application has
\* gone to, and the history as it was; back at cursor 0 and forward at the last
\* index change nothing
C14_BackForwardMoveByOne ==
    [][/\ \A i \in DOMAIN inflight, up \in BOOLEAN :
            (HistoryComplete(i, up) /\ CanList(inflight[i].path, up)) =>
               /\ navigationIndex' = navigationIndex +
                      (IF inflight[i].kind = "back" THEN -1 ELSE 1)
               /\ navigationHistory' = navigationHistory
               /\ HistoryAt(navigationIndex') = inflight[i].path
       /\ (handleNavigateBack /\ navigationIndex = 0) => UNCHANGED vars
       /\ (handleNavigateForward /\ navigationIndex = Len(navigationHistory) - 1)
              => UNCHANGED vars]_vars

\* C15: whenever the navigation history is not empty, the cursor is an index of
\* it
C15_CursorInRange ==
    navigationHistory # <<>> =>
        (0 <= navigationIndex /\ navigationIndex < Len(navigationHistory))

\* C16: when the expand fetch of a directory that was collapsed while the fetch
\* was pending completes, its result becomes the cache entry of the directory
\* and the set of directories shown expanded stays as it is
C16_CollapseDuringFetch ==
    [][\A i \in DOMAIN inflight, up \in BOOLEAN :
          (ExpandComplete(i, up) /\ inflight[i].collapsed) =>
             /\ inflight[i].path \in DOMAIN childrenCache'
             /\ childrenCache'[inflight[i].path] =
                   handleFolderExpandResult(CanList(inflight[i].path, up),
                                            Listing(inflight[i].path)).children
             /\ expandedFiles' = expandedFiles]_vars

(***************************************************************************)
(* Properties of moves                                                     *)
(***************************************************************************)
\* this completion of handleDragEnd's await calls reloadExpandedFolder on the
\* folder the item was moved into
CallsReloadOfTarget(i, up) ==
    /\ EndComplete(i, up)
    /\ inflight[i].kind = "end"
    /\ \/ inflight[i].pc = "reloadSrc"
       \/ /\ inflight[i].pc = "await"
          /\ CanMove(inflight[i].item.path,
                     joinPath(inflight[i].path, baseName(inflight[i].item.path)), up)
          /\ parentPath(inflight[i].item.path) \notin inflight[i].snapExp

\* C17: a call of reloadExpandedFolder on a folder issues the fetch of its
\* children, whether or not the folder is expanded
C17_RefreshFetchesUnconditionally ==
    [][\A i \in DOMAIN inflight, up \in BOOLEAN :
          CallsReloadOfTarget(i, up) =>
             /\ i \in DOMAIN inflight'
             /\ inflight'[i].pc = "reloadDst"]_vars

\* a move that satisfies the rules of a legal move: the target is a folder
\* other than the item, its parent and its descendants, and holds no entry of
\* the item's name
LegalMove(op) ==
    LET newPath == joinPath(op.path, baseName(op.item.path))
    IN /\ DirExists(op.path)
       /\ op.path # op.item.path
       /\ op.path # parentPath(op.item.path)
       /\ ~IsDescendant(op.path, op.item.path)
       /\ ~Exists(newPath)

\* this step is the failure of the rename call of a legal move
MoveFails(i, up) ==
    /\ MoveHandler(inflight[i])
    /\ inflight[i].pc = "await"
    /\ LegalMove(inflight[i])
    /\ ~up
    /\ (DropComplete(i, up) \/ EndComplete(i, up))

\* C20: when the rename call of a legal move fails, the children cache and the
\* expanded set stay as they are, no listing is fetched, and an error is
\* displayed
C20_FailedMoveSurfacesError ==
    [][\A i \in DOMAIN inflight, up \in BOOLEAN :
          MoveFails(i, up) =>
             /\ UNCHANGED explorerVars
             /\ Len(inflight') = Len(inflight) - 1
             /\ error' # NoError]_vars

(***************************************************************************)
(* Properties of external changes                                          *)
(***************************************************************************)
\* C18: when the listing requested for a change notification arrives, the
\* listener reads the open file again exactly when the notification is for
\* the path of the open file
C18_ReloadOnlyWhenOpenFileChanged ==
    [][\A i \in DOMAIN inflight :
          (WatchComplete(i) /\ inflight[i].pc = "served") =>
             ((i \in DOMAIN inflight' /\ inflight'[i].kind = "watchRead")
                 <=> (inflight[i].item.path # NoPath
                      /\ inflight[i].item.path \in inflight[i].seen))]_vars

\* C19: a listing that arrives after a listing requested later has been
\* delivered does not replace the displayed listing
C19_OlderListingNeverReplacesNewer ==
    [][\A i \in DOMAIN inflight :
          (WatchComplete(i) /\ inflight[i].stale) => files' = files]_vars

(***************************************************************************)
(* Properties of the drag state                                            *)
(***************************************************************************)
\* the folder at path breaks rule 2 or rule 3 of a legal move of the dragged
\* entry: it is the entry itself or lies below it
IllegalTarget(path) ==
    /\ draggedItem # NoItem
    /\ (path = draggedItem.path \/ IsDescendant(path, draggedItem.path))

\* C22: during a drag the drop target is none, the root target, or a directory
\* that is neither the dragged entry nor an illegal target, and while the pointer
\* is over a file, over the dragged entry or over an illegal target the drop
\* target is none
C22_DropTargetNoneRootOrLegal ==
    dragPhase = "dragging" =>
       /\ \/ dropTarget \in {NoTarget, RootTarget}
          \/ /\ ~IllegalTarget(dropTarget)
             /\ FileItem(dropTarget, FALSE) \notin Rendered
       /\ (hover \in Rendered /\ (~hover.isDirectory \/ IllegalTarget(hover.path)))
             => dropTarget = NoTarget

\* a handleDragEnd invocation that moves the entry itself is suspended
DragEndPending == \E i \in DOMAIN inflight : inflight[i].kind \in {"end", "endRoot"}

\* C23 as stated: whenever no drag gesture is in progress, the dragged entry
\* and the drop target are none
C23_DragStateNoneAfterGesture ==
    dragPhase = "idle" => (draggedItem = NoItem /\ dropTarget = NoTarget)

\* C23, amended: whenever no drag gesture is in progress and no drag-end
\* handler is waiting for the backend, the dragged entry and the drop target
\* are none
C23_DragStateNoneOnceDragEndReturned ==
    (dragPhase = "idle" /\ ~DragEndPending)
        => (draggedItem = NoItem /\ dropTarget = NoTarget)

\* a gesture that issued a move has ended and every handler has returned
C23_Witness ==
    /\ dragPhase = "idle"
    /\ released # NoRelease
    /\ released.moves = 1
    /\ inflight = <<>>

(***************************************************************************)
(* Properties of create, rename and delete                                 *)
(***************************************************************************)
\* the backend rejects the call of the suspended handler i, which resumes
CrudFails(i, up) ==
    /\ i \in DOMAIN inflight
    /\ inflight[i].kind \in CrudKinds
    /\ ~CrudSucceeds(inflight[i], up)
    /\ CrudComplete(i, up)

\* C21: when the backend call of a create, rename or delete fails, an error
\* message is displayed, the call is not issued again, and the open dialog and
\* its target stay as they are
C21_FailedCrudSurfacesError ==
    [][\A i \in DOMAIN inflight, up \in BOOLEAN :
          CrudFails(i, up) =>
             /\ error' # NoError
             /\ Len(inflight') = Len(inflight) - 1
             /\ UNCHANGED dialogVars]_vars

(***************************************************************************)
(* Properties of sorting                                                   *)
(***************************************************************************)
\* a has to be shown above b: a directory above a file, and within each group
\* the name that is smaller when case is ignored
Precedes(a, b) ==
    \/ a.isDirectory /\ ~b.isDirectory
    \/ /\ a.isDirectory = b.isDirectory
       /\ Rank(toLowerCase(baseName(a.path))) < Rank(toLowerCase(baseName(b.path)))

Ordered(list) == \A i, j \in DOMAIN list : i < j => ~Precedes(list[j], list[i])

\* C24: every displayed list, the root list and the children of an expanded
\* folder, has directories before files and each group in case-insensitive
\* order of the names
C24_DisplayedListsOrdered ==
    Ordered(displayed.files) /\ Ordered(displayed.children)

(***************************************************************************)
(* Properties of editing and saving                                        *)
(***************************************************************************)
\* C25: every burst of edits is followed by exactly one auto-save, 2 s after
\* its last edit: while edits have been typed that no auto-save has followed,
\* the timer is pending; an edit starts no save and leaves the timer armed anew;
\* and the timer, when it fires, starts exactly one save
C25_AutoSaveFollowsEveryBurst ==
    /\ [](burst => autoSaveTimer)
    /\ [][(Type => (inflight' = inflight /\ autoSaveTimer'))
          /\ (AutoSaveFire => (Len(inflight') = Len(inflight) + 1 /\ ~autoSaveTimer'))]_vars

\* C27: every text written to the file at a path was read from that file or
\* typed into it: no save writes the text of one file to the path of another
C27_SavedTextBelongsToPath ==
    saved # NoWrite => saved.text.origin = saved.path

(***************************************************************************)
(* Properties of the panes                                                 *)
(***************************************************************************)
\* C26: the editor pane and the preview pane are never both collapsed
C26_NeverBothCollapsed == ~(isEditorCollapsed /\ isPreviewCollapsed)

\* the editor pane is collapsed after the panes have been resized, so that the
\* controls that would collapse the preview pane are disabled
C26_Witness ==
    /\ isEditorCollapsed
    /\ ~isPreviewCollapsed
    /\ leftWidth # 50
    /\ CollapseRightDisabled
    /\ TogglePreviewDisabled

(***************************************************************************)
(* Properties of the current directory and its listing                     *)
(***************************************************************************)
\* C28: once no navigation is pending, whether its listing succeeded or
\* failed, the current directory path is navigationHistory[navigationIndex]
C28_CurrentDirectoryIsHistoryAtIndex ==
    inflight = <<>> =>
        /\ 0 <= navigationIndex
        /\ navigationIndex < Len(navigationHistory)
        /\ currentDirectoryPath = HistoryAt(navigationIndex)

\* C29: once the listings of overlapping navigations have all returned
\* without error, in whichever order, the displayed file list is the
\* listing of the current directory path
C29_FilesAreListingOfCurrentDirectory ==
    (inflight = <<>> /\ error = NoError) => files = Listing(currentDirectoryPath)

(***************************************************************************)
(* Properties of clicks on different entries                               *)
(***************************************************************************)
\* C30: when a click on an entry is followed, while its timer is pending, by
\* a single click on another entry, then once no timer is pending the
\* single-click action of the first entry and that of the second have each
\* fired exactly once
C30_PendingSingleClicksIndependent ==
    (clicked # NoClick /\ clicked.prev # NoItem /\ clickTimeout = NoTimer) =>
        /\ clicked.prevFired = SingleClickAction(clicked.prev)
        /\ clicked.fired = SingleClickAction(clicked.file)

====
